---- MODULE Spec2Model ----
(***************************************************************************)
(* TalentScan Intelligence (src/app.py): a Streamlit script that keeps two *)
(* session-state entries, uploaded_data and analysis_results.  Every user  *)
(* interaction re-runs the script top to bottom: the uploader's files are  *)
(* merged into uploaded_data, the "Start Deep Screening" button runs the   *)
(* per-CV loop, the dashboard is rendered from analysis_results, and the   *)
(* sidebar button clears the session.                                      *)
(***************************************************************************)
EXTENDS Integers, Sequences, FiniteSets, TLC

\* ------------------------------------------------------------------ bounds
\* Largest number of files the uploader widget holds at once.
MaxBatch == 2

\* ------------------------------------------------------------ JSON values
\* A JSON leaf value: t is its Python type, n its number, s its text.
JInt(n) == [t |-> "int", n |-> n, s |-> ""]
JStr(s) == [t |-> "str", n |-> 0, s |-> s]
JLst(s) == [t |-> "list", n |-> 3, s |-> s]

\* The keys the prompt asks the model to return.
PromptKeys ==
    {"name", "total_score", "technical_fit", "seniority_fit", "verdict",
     "strengths", "weaknesses", "interview_questions"}

\* A Python dict is a function from its keys to values.
FullObj(name, score) ==
    [k \in PromptKeys |->
        CASE k = "name" -> JStr(name)
          [] k = "total_score" -> score
          [] k \in {"technical_fit", "seniority_fit"} -> JInt(50)
          [] k = "verdict" -> JStr("summary")
          [] OTHER -> JLst(k)]

\* d[k] = v on a dict.
SetItem(d, k, v) == [x \in (DOMAIN d) \cup {k} |-> IF x = k THEN v ELSE d[x]]

\* What json.loads can return: an object, a list or a scalar.
JObject(d) == [kind |-> "object", obj |-> {d}, items |-> <<>>]
JScalar == [kind |-> "scalar", obj |-> {}, items |-> <<>>]
JList(items) == [kind |-> "list", obj |-> {}, items |-> items]

\* The objects the model is taken to answer with: a complete one, one with
\* the same candidate name and a filename of its own, one with its score as
\* a string, one with keys missing.
Objects ==
    { FullObj("Ann", JInt(90)),
      SetItem(FullObj("Ann", JInt(70)), "filename", JStr("other.pdf")),
      FullObj("Bob", JStr("85")),
      [k \in {"name", "verdict"} |-> IF k = "name" THEN JStr("Dee") ELSE JStr("summary")] }

\* The outcomes of model.generate_content followed by response.text:
\* the call raises with a message, or it returns text that is not JSON, or
\* text that json.loads parses.
Raise(msg) == [kind |-> "raise", msg |-> msg, data |-> JScalar]
BadJson == [kind |-> "badjson", msg |-> "", data |-> JScalar]
Json(data) == [kind |-> "json", msg |-> "", data |-> data]
\* The entry of replies for a CV the model was never called for.
NoCall == [kind |-> "nocall", msg |-> "", data |-> JScalar]

Replies ==
    { Raise("429 Resource exhausted"), Raise("500 Internal error"), BadJson,
      Json(JList(<<>>)), Json(JList(<<JScalar>>)),
      Json(JList(<<JObject(FullObj("Ann", JInt(90))), JObject(FullObj("Bob", JStr("85")))>>)) }
    \cup { Json(JObject(o)) : o \in Objects }

\* ---------------------------------------------------------------- uploads
\* The files a user can pick: two different files named a.pdf (one of them
\* not a readable PDF), and one named b.pdf.
FileSet ==
    { [name |-> "a.pdf", content |-> "pdf"],
      [name |-> "a.pdf", content |-> "junk"],
      [name |-> "b.pdf", content |-> "pdf"] }

RECURSIVE SeqsUpTo(_, _)
SeqsUpTo(S, n) ==
    IF n = 0 THEN {<<>>}
    ELSE LET shorter == SeqsUpTo(S, n - 1)
         IN shorter \cup {Append(q, x) : q \in shorter, x \in S}

Batches == SeqsUpTo(FileSet, MaxBatch)

VARIABLES
    files,              \* the uploader widget's current files
    jd_text,            \* the job-description text area
    uploaded_data,      \* st.session_state.uploaded_data
    analysis_results,   \* st.session_state.analysis_results (none = None)
    pc,                 \* "idle", or "loop" inside the screening loop
    idx,                \* number of CVs the loop has been through
    all_findings,       \* the loop's local list of records
    replies,            \* what the model answered for each CV of the run
    log                 \* what the current run of the script did, in order

vars == <<files, jd_text, uploaded_data, analysis_results, pc, idx,
          all_findings, replies, log>>

None == [none |-> TRUE, val |-> <<>>]
Some(v) == [none |-> FALSE, val |-> v]

\* any(cv['name'] == name for cv in data)
NamePresent(data, name) == \E i \in 1..Len(data) : data[i].name = name

\* The duplicate check of the upload loop, for one file f.
AddFileAlways(data, f) == Append(data, [name |-> f.name, content |-> f.content])
AddFile(data, f) ==
    IF ~NamePresent(data, f.name)
    THEN Append(data, [name |-> f.name, content |-> f.content])
    ELSE data

\* if files: for f in files: ...
RECURSIVE Sync(_, _)
Sync(data, fs) ==
    IF fs = <<>> THEN data ELSE Sync(AddFile(data, Head(fs)), Tail(fs))

\* ------------------------------------------------------- the screening loop
\* One entry of the log: a model call, a time.sleep, an st.error naming a
\* CV, or the st.warning of the Start guard.
Event(ev, cv, secs, msg) == [ev |-> ev, cv |-> cv, secs |-> secs, msg |-> msg]

\* PdfReader(BytesIO(cv['content'])) raises on bytes that are no PDF.
PdfReadable(content) == content = "pdf"

\* if isinstance(data, list): data = data[0]
FirstOfListLast(data) ==
    IF data.kind # "list" THEN [exc |-> "", data |-> data]
    ELSE IF data.items = <<>> THEN [exc |-> "list index out of range", data |-> data]
    ELSE [exc |-> "", data |-> data.items[Len(data.items)]]
FirstOfList(data) ==
    IF data.kind # "list" THEN [exc |-> "", data |-> data]
    ELSE IF data.items = <<>> THEN [exc |-> "list index out of range", data |-> data]
    ELSE [exc |-> "", data |-> data.items[1]]

\* data['filename'] = cv['name']: only a dict takes the assignment.
TagFilename(data, name) ==
    IF data.kind # "object"
    THEN [exc |-> "object does not support item assignment", rec |-> {}]
    ELSE [exc |-> "", rec |-> {SetItem(d, "filename", JStr(name)) : d \in data.obj}]

\* The body of the try block for one CV and one answer of the model:
\* exc is the message of the exception raised ("" when none is), called
\* tells whether generate_content was reached, rec holds the record that
\* is appended to all_findings.
Analyze(cv, reply) ==
    IF ~PdfReadable(cv.content)
    THEN [exc |-> "EOF marker not found", called |-> FALSE, rec |-> {}]
    ELSE IF reply.kind = "raise"
    THEN [exc |-> reply.msg, called |-> TRUE, rec |-> {}]
    ELSE IF reply.kind = "badjson"
    THEN [exc |-> "Expecting value", called |-> TRUE, rec |-> {}]
    ELSE LET first == FirstOfList(reply.data)
         IN IF first.exc # ""
            THEN [exc |-> first.exc, called |-> TRUE, rec |-> {}]
            ELSE LET tagged == TagFilename(first.data, cv.name)
                 IN [exc |-> tagged.exc, called |-> TRUE, rec |-> tagged.rec]

\* What one pass of the loop body writes to the log.
CallEvents(cv, a) ==
    IF a.called THEN <<Event("call", cv.name, 0, "")>> ELSE <<>>
AfterEvents(cv, a) ==
    IF a.exc = ""
    THEN <<Event("sleep", cv.name, 1, "")>>
    ELSE <<Event("error", cv.name, 0, a.exc)>>

\* all_findings.append(data), reached only when nothing was raised.
AppendFindingAlways(findings, cv, a) ==
    IF a.exc = "" THEN findings \o <<CHOOSE r \in a.rec : TRUE>>
    ELSE Append(findings, SetItem(FullObj("", JInt(0)), "filename", JStr(cv.name)))
AppendFinding(findings, cv, a) ==
    IF a.exc = "" THEN findings \o <<CHOOSE r \in a.rec : TRUE>> ELSE findings

\* ------------------------------------------------------------ the dashboard
\* if st.session_state.analysis_results:
DashboardShown(results) == ~results.none /\ results.val # <<>>

HasKey(rec, k) == k \in DOMAIN rec

\* pd.DataFrame(records): a column for every key some record has; a record
\* without the key holds NaN in that column.
Columns(R) == UNION {DOMAIN R[i] : i \in 1..Len(R)}
NaN == [t |-> "nan", n |-> 0, s |-> ""]
Cell(rec, k) == IF HasKey(rec, k) THEN rec[k] ELSE NaN

\* The Python types found in the total_score column.
ScoreTypes(R) ==
    {R[i]["total_score"].t : i \in {j \in 1..Len(R) : HasKey(R[j], "total_score")}}

\* The columns st.dataframe is given.
TableColumns == {"name", "total_score", "technical_fit", "seniority_fit", "verdict"}

\* The exception that ends the script between sort_values and st.dataframe
\* ("" when none does): sort_values raises KeyError without the column and
\* TypeError on a column that mixes str and int, mean() raises TypeError on
\* strings, and a column no record has raises KeyError when it is read.
HeaderError(R) ==
    IF "total_score" \notin Columns(R) THEN "KeyError"
    ELSE IF Cardinality(ScoreTypes(R)) > 1 THEN "TypeError"
    ELSE IF "str" \in ScoreTypes(R) THEN "TypeError"
    ELSE IF "name" \notin Columns(R) THEN "KeyError"
    ELSE IF ~(TableColumns \subseteq Columns(R)) THEN "KeyError"
    ELSE ""

Perms(n) == {p \in [1..n -> 1..n] : \A i, j \in 1..n : i # j => p[i] # p[j]}

\* Row a may stand above row b after sort_values(ascending=False): NaN
\* comes last, equal scores come in either order.
MayPrecede(R, a, b) ==
    IF ~HasKey(R[a], "total_score") THEN ~HasKey(R[b], "total_score")
    ELSE \/ ~HasKey(R[b], "total_score")
         \/ R[a]["total_score"].n >= R[b]["total_score"].n

\* The row orders df can have: order[r] is the position in
\* analysis_results of the record shown in row r.
SortOrders(R) ==
    {p \in Perms(Len(R)) :
        \A i, j \in 1..Len(R) : i < j => MayPrecede(R, p[i], p[j])}

\* df.iloc[0]['name']
TopFit(R, order) == Cell(R[order[1]], "name")

\* The option of the selectbox in row r: df['name'].tolist()[r].
SelectedName(R, order, row) == Cell(R[order[row]], "name")

\* next(c for c in analysis_results if c['name'] == selected_name), scanned
\* from position i: at is the position of the record found.
RECURSIVE FindCandidate(_, _, _)
FindCandidate(R, selected_name, i) ==
    IF i > Len(R) THEN [exc |-> "StopIteration", at |-> 0]
    ELSE IF ~HasKey(R[i], "name") THEN [exc |-> "KeyError", at |-> 0]
    ELSE IF R[i]["name"] = selected_name THEN [exc |-> "", at |-> i]
    ELSE FindCandidate(R, selected_name, i + 1)

\* next(cv for cv in uploaded_data if cv['name'] == candidate['filename']),
\* scanned from position i: 0 when no entry has the name.
RECURSIVE FindFile(_, _, _)
FindFile(data, filename, i) ==
    IF i > Len(data) THEN 0
    ELSE IF JStr(data[i].name) = filename THEN i
    ELSE FindFile(data, filename, i + 1)

\* The keys the detail pane reads of the candidate.
DetailKeys == {"strengths", "weaknesses", "interview_questions"}

\* The detail pane and the PDF viewer for the option chosen in row `row`:
\* exc is the exception that ends the script ("" when none does), at the
\* position of the record shown, file the position of the PDF shown.
View(R, data, order, row) ==
    LET found == FindCandidate(R, SelectedName(R, order, row), 1)
    IN IF found.exc # "" THEN [exc |-> found.exc, at |-> 0, file |-> 0]
       ELSE IF ~(DetailKeys \subseteq DOMAIN R[found.at])
       THEN [exc |-> "KeyError", at |-> found.at, file |-> 0]
       ELSE LET f == FindFile(data, R[found.at]["filename"], 1)
            IN IF f = 0 THEN [exc |-> "StopIteration", at |-> found.at, file |-> 0]
               ELSE [exc |-> "", at |-> found.at, file |-> f]

\* The script reaches the sidebar (and so draws its button) only when the
\* dashboard raised nothing for some option the user can choose.
SidebarReached(results, data) ==
    \/ ~DashboardShown(results)
    \/ /\ HeaderError(results.val) = ""
       /\ \E order \in SortOrders(results.val) : \E row \in 1..Len(results.val) :
              View(results.val, data, order, row).exc = ""

Init ==
    /\ files = <<>>
    /\ jd_text = ""
    /\ uploaded_data = <<>>
    /\ analysis_results = None
    /\ pc = "idle"
    /\ idx = 0
    /\ all_findings = <<>>
    /\ replies = <<>>
    /\ log = <<>>

\* The user changes the uploader's files; the script re-runs and merges
\* them into uploaded_data.
SetFiles(batch) ==
    /\ pc = "idle"
    /\ batch # files
    /\ files' = batch
    /\ uploaded_data' = Sync(uploaded_data, batch)
    /\ idx' = 0
    /\ all_findings' = <<>>
    /\ replies' = <<>>
    /\ log' = <<>>
    /\ UNCHANGED <<jd_text, analysis_results, pc>>

\* The user edits the job description; the script re-runs.
SetJD(text) ==
    /\ pc = "idle"
    /\ text # jd_text
    /\ jd_text' = text
    /\ uploaded_data' = Sync(uploaded_data, files)
    /\ idx' = 0
    /\ all_findings' = <<>>
    /\ replies' = <<>>
    /\ log' = <<>>
    /\ UNCHANGED <<files, analysis_results, pc>>

\* if not jd_text or not st.session_state.uploaded_data
StartGuard(jd, data) == jd = "" \/ data = <<>>

\* Start pressed with the guard refusing: st.warning.
StartWarn ==
    /\ pc = "idle"
    /\ StartGuard(jd_text, Sync(uploaded_data, files))
    /\ uploaded_data' = Sync(uploaded_data, files)
    /\ log' = <<Event("warning", "", 0, "")>>
    /\ idx' = 0
    /\ all_findings' = <<>>
    /\ replies' = <<>>
    /\ UNCHANGED <<files, jd_text, analysis_results, pc>>

\* Start pressed with a job description and at least one CV: the loop is
\* entered with an empty all_findings.
StartRun ==
    /\ pc = "idle"
    /\ ~StartGuard(jd_text, Sync(uploaded_data, files))
    /\ uploaded_data' = Sync(uploaded_data, files)
    /\ pc' = "loop"
    /\ idx' = 0
    /\ all_findings' = <<>>
    /\ replies' = <<>>
    /\ log' = <<>>
    /\ UNCHANGED <<files, jd_text, analysis_results>>

\* One pass of the for loop, for the CV at position idx (0-based) and one
\* answer of the model.
ProcessCV(reply) ==
    /\ pc = "loop"
    /\ idx < Len(uploaded_data)
    /\ LET cv == uploaded_data[idx + 1]
           a == Analyze(cv, reply)
       IN /\ all_findings' = AppendFinding(all_findings, cv, a)
          /\ log' = log \o CallEvents(cv, a) \o AfterEvents(cv, a)
    /\ replies' = Append(replies, IF PdfReadable(uploaded_data[idx + 1].content)
                                   THEN reply ELSE NoCall)
    /\ idx' = idx + 1
    /\ UNCHANGED <<files, jd_text, uploaded_data, analysis_results, pc>>

\* st.session_state.analysis_results = all_findings
StoreResultsKeep(old, findings) == Some(old.val \o findings)
StoreResults(old, findings) == Some(findings)

\* The loop is over: the results are stored and st.rerun() restarts the
\* script, which ends the run's local variables.
FinishRun ==
    /\ pc = "loop"
    /\ idx = Len(uploaded_data)
    /\ analysis_results' = StoreResults(analysis_results, all_findings)
    /\ uploaded_data' = Sync(uploaded_data, files)
    /\ pc' = "idle"
    /\ idx' = 0
    /\ all_findings' = <<>>
    /\ replies' = <<>>
    /\ log' = <<>>
    /\ UNCHANGED <<files, jd_text>>

\* The sidebar button: both entries are reset and st.rerun() restarts the
\* script, which merges the files still held by the uploader.
Clear ==
    /\ pc = "idle"
    /\ SidebarReached(analysis_results, Sync(uploaded_data, files))
    /\ analysis_results' = None
    /\ uploaded_data' = Sync(<<>>, files)
    /\ idx' = 0
    /\ all_findings' = <<>>
    /\ replies' = <<>>
    /\ log' = <<>>
    /\ UNCHANGED <<files, jd_text, pc>>

Next ==
    \/ \E batch \in Batches : SetFiles(batch)
    \/ \E text \in {"", "jd"} : SetJD(text)
    \/ StartWarn
    \/ StartRun
    \/ \E reply \in Replies : ProcessCV(reply)
    \/ FinishRun
    \/ Clear

Spec == Init /\ [][Next]_vars

\* ============================================================== properties
\* Helpers of the properties below.
RecordsOf(R) == {R[i] : i \in 1..Len(R)}
StoredRecords == RecordsOf(all_findings) \cup RecordsOf(analysis_results.val)
FilenamesOf(R) == [i \in 1..Len(R) |-> R[i]["filename"]]
IsListReply(reply) == reply.kind = "json" /\ reply.data.kind = "list"
ErrorEvents == SelectSeq(log, LAMBDA e : e.ev = "error")
CallsInLog == SelectSeq(log, LAMBDA e : e.ev = "call")

\* Processing a CV succeeds when its PDF is readable, the model answers
\* with JSON text, and the JSON is an object or a list that starts with one.
Succeeds(cv, reply) ==
    /\ cv.content = "pdf"
    /\ reply.kind = "json"
    /\ \/ reply.data.kind = "object"
       \/ /\ reply.data.kind = "list"
          /\ reply.data.items # <<>>
          /\ reply.data.items[1].kind = "object"

\* The names, in upload order, of the first n CVs that succeeded (ok) or
\* failed (~ok).
RECURSIVE NamesWhere(_, _)
NamesWhere(n, ok) ==
    IF n = 0 THEN <<>>
    ELSE LET rest == NamesWhere(n - 1, ok)
         IN IF Succeeds(uploaded_data[n], replies[n]) = ok
            THEN Append(rest, uploaded_data[n].name)
            ELSE rest

AsFilenames(names) == [i \in 1..Len(names) |-> JStr(names[i])]
EventNames(events) == [i \in 1..Len(events) |-> events[i].cv]

\* ---- C1
C1_LoopState ==
    pc = "loop" =>
        /\ Len(replies) = idx
        /\ FilenamesOf(all_findings) = AsFilenames(NamesWhere(idx, TRUE))
        /\ EventNames(ErrorEvents) = NamesWhere(idx, FALSE)
        /\ \A i \in 1..Len(ErrorEvents) : ErrorEvents[i].msg # ""

C1_Continue == [][pc = "loop" /\ pc' = "loop" => idx' = idx + 1]_vars

C1_Stored ==
    [][pc = "loop" /\ pc' = "idle" =>
          /\ idx = Len(uploaded_data)
          /\ analysis_results' = Some(all_findings)]_vars

\* C1: in a screening run every CV whose processing raises gets an error
\* message naming it and the loop goes on to the next CV; the records
\* collected, and stored in analysis_results when the run ends, are one per
\* CV that succeeded, in upload order, and none for a CV that failed.
C1_ErrorsSkipped == []C1_LoopState /\ C1_Continue /\ C1_Stored

\* A run in which the first CV failed and the second one succeeded.
C1_Witness ==
    /\ pc = "loop"
    /\ idx = 2
    /\ ~Succeeds(uploaded_data[1], replies[1])
    /\ Succeeds(uploaded_data[2], replies[2])
    /\ Len(all_findings) = 1
    /\ Len(ErrorEvents) = 1

\* ---- C2
\* The message of the error holds "429".
Has429(msg) == msg = "429 Resource exhausted"

\* C2: an error of a model call whose message contains "429" is followed by
\* a sleep longer than the 1 second sleep of a successful call.
C2_LongerSleepOn429 ==
    pc = "loop" =>
        \A k \in 1..Len(log) :
            (log[k].ev = "error" /\ Has429(log[k].msg)) =>
                /\ k < Len(log)
                /\ log[k + 1].ev = "sleep"
                /\ log[k + 1].secs > 1

\* ---- C3
RecordShape == PromptKeys \cup {"filename"}

\* C3: every stored record has all the keys of the fixed shape, so that the
\* dashboard never fails on a key it reads.
C3_FixedShape ==
    /\ \A r \in StoredRecords : RecordShape \subseteq DOMAIN r
    /\ DashboardShown(analysis_results) =>
          /\ HeaderError(analysis_results.val) # "KeyError"
          /\ \A order \in SortOrders(analysis_results.val) :
                \A row \in 1..Len(analysis_results.val) :
                    View(analysis_results.val, uploaded_data, order, row).exc # "KeyError"

\* ---- C4
\* C4: between any two consecutive model calls of a run there is a sleep of
\* 1 second, whether or not the earlier call succeeded.
C4_SleepBetweenCalls ==
    pc = "loop" =>
        \A j, k \in 1..Len(log) :
            (j < k /\ log[j].ev = "call" /\ log[k].ev = "call") =>
                \E m \in (j + 1)..(k - 1) : log[m].ev = "sleep" /\ log[m].secs = 1

\* ---- C5
HasRecordFor(cv) ==
    \E k \in 1..Len(all_findings) : all_findings[k]["filename"] = JStr(cv.name)

\* C5 as claimed: every list the model answers with, the empty list too,
\* leaves a record for its CV.
C5_ListAlwaysStored ==
    pc = "loop" =>
        \A i \in 1..idx : IsListReply(replies[i]) => HasRecordFor(uploaded_data[i])

\* C5 as amended: a list that starts with an object leaves that object,
\* tagged with the file name, as the record of its CV; an empty list or a
\* list that starts with anything else leaves no record and an error
\* message naming the CV.
C5_FirstElementOfList ==
    pc = "loop" =>
        \A i \in 1..idx :
            IsListReply(replies[i]) =>
                LET items == replies[i].data.items
                    cv == uploaded_data[i]
                IN IF items # <<>> /\ items[1].kind = "object"
                   THEN \A d \in items[1].obj :
                            \E k \in 1..Len(all_findings) :
                                all_findings[k] = SetItem(d, "filename", JStr(cv.name))
                   ELSE /\ ~HasRecordFor(cv)
                        /\ \E k \in 1..Len(log) :
                               log[k].ev = "error" /\ log[k].cv = cv.name

\* A list of two objects was answered and its CV has a record.
C5_Witness ==
    /\ pc = "loop"
    /\ \E i \in 1..idx :
          /\ IsListReply(replies[i])
          /\ Len(replies[i].data.items) = 2
          /\ HasRecordFor(uploaded_data[i])

\* ---- C6
ScoreOf(rec) == rec["total_score"].n

\* C6: whenever analysis_results is non-empty the table shows every record
\* once, by total_score from highest to lowest, and "Top Fit" names a
\* record with the highest total_score.
C6_RankedTable ==
    DashboardShown(analysis_results) =>
        LET R == analysis_results.val
        IN /\ HeaderError(R) = ""
           /\ SortOrders(R) # {}
           /\ \A order \in SortOrders(R) :
                 /\ \A i \in 1..Len(R) : HasKey(R[i], "total_score")
                 /\ \A i, j \in 1..Len(R) :
                       i < j => ScoreOf(R[order[i]]) >= ScoreOf(R[order[j]])
                 /\ \E i \in 1..Len(R) :
                       /\ TopFit(R, order) = Cell(R[i], "name")
                       /\ \A j \in 1..Len(R) : ScoreOf(R[i]) >= ScoreOf(R[j])

\* ---- C7
\* C7: the total_score of every stored record is a number from 0 to 100.
C7_ScoreNumeric ==
    \A r \in StoredRecords :
        HasKey(r, "total_score") =>
            /\ r["total_score"].t = "int"
            /\ r["total_score"].n >= 0
            /\ r["total_score"].n <= 100

\* ---- C8
NamesIn(data) == {data[i].name : i \in 1..Len(data)}
IsPrefix(a, b) == Len(a) <= Len(b) /\ \A i \in 1..Len(a) : a[i] = b[i]

C8_NoDuplicateNames ==
    \A i, j \in 1..Len(uploaded_data) :
        i # j => uploaded_data[i].name # uploaded_data[j].name

\* A step merges the uploader's files into what was there before (nothing,
\* after Clear): entries already there stay as they are, and each name that
\* is new gets one entry.
C8_UploadStep ==
    LET cleared == analysis_results'.none /\ ~IsPrefix(uploaded_data, uploaded_data')
        before == IF cleared THEN <<>> ELSE uploaded_data
    IN /\ IsPrefix(before, uploaded_data')
       /\ NamesIn(uploaded_data') = NamesIn(before) \cup NamesIn(files')
       /\ Len(uploaded_data') =
             Len(before) + Cardinality(NamesIn(files') \ NamesIn(before))
       /\ \A k \in (Len(before) + 1)..Len(uploaded_data') :
             \E i \in 1..Len(files') :
                 /\ files'[i] = uploaded_data'[k]
                 /\ \A h \in 1..(i - 1) : files'[h].name # files'[i].name

\* C8: uploaded_data never holds two entries with the same file name; a
\* file whose name is present changes nothing (the first content stays),
\* a file with a new name adds one entry.
C8_UniqueUploads == []C8_NoDuplicateNames /\ [][C8_UploadStep]_vars

\* The uploader holds a file named like an entry of uploaded_data, with
\* another content.
C8_Witness ==
    \E i \in 1..Len(files) : \E k \in 1..Len(uploaded_data) :
        /\ files[i].name = uploaded_data[k].name
        /\ files[i].content # uploaded_data[k].content

\* ---- C9
C9_RunState ==
    /\ pc = "loop" =>
          /\ jd_text # ""
          /\ uploaded_data # <<>>
          /\ idx <= Len(uploaded_data)
          /\ Len(CallsInLog) <= idx
          /\ \A j, k \in 1..Len(CallsInLog) :
                j # k => CallsInLog[j].cv # CallsInLog[k].cv
    /\ pc = "idle" => CallsInLog = <<>>

C9_Step ==
    /\ (pc = "idle" /\ pc' = "loop") =>
          /\ jd_text # "" /\ uploaded_data # <<>>
          /\ all_findings' = <<>> /\ log' = <<>>
          /\ UNCHANGED <<analysis_results, uploaded_data>>
    /\ (\E k \in 1..Len(log') : log'[k].ev = "warning") =>
          /\ jd_text = "" \/ uploaded_data = <<>>
          /\ CallsInLog = <<>> /\ pc' = "idle"
          /\ UNCHANGED <<analysis_results, uploaded_data>>
    /\ (pc = "loop" /\ pc' = "loop") =>
          /\ idx' = idx + 1 /\ idx' <= Len(uploaded_data)
          /\ UNCHANGED <<analysis_results, uploaded_data>>
    /\ (pc = "loop" /\ pc' = "idle") =>
          /\ analysis_results' = Some(all_findings)
          /\ Len(analysis_results'.val) <= Len(CallsInLog)

\* C9: Start with no job description or no CV warns, calls no model and
\* leaves analysis_results and uploaded_data as they are; otherwise the run
\* calls the model at most once per CV, ends after one pass per CV, and
\* stores the records of this run only.
C9_StartScreening == []C9_RunState /\ [][C9_Step]_vars

\* A second run, with results of an earlier run still stored, has reached
\* the end of its loop without a record.
C9_Witness ==
    /\ pc = "loop"
    /\ idx = Len(uploaded_data)
    /\ all_findings = <<>>
    /\ ~analysis_results.none
    /\ analysis_results.val # <<>>

\* ---- C10
WellFormed(R) == \A i \in 1..Len(R) : RecordShape \subseteq DOMAIN R[i]

\* C10: every stored record names exactly one entry of uploaded_data, and
\* (for records that have all their keys) the detail pane and the PDF shown
\* for the option chosen in a row are those of the record in that row.
C10_OwnRecordShown ==
    /\ \A r \in RecordsOf(analysis_results.val) :
          Cardinality({k \in 1..Len(uploaded_data) :
                          JStr(uploaded_data[k].name) = r["filename"]}) = 1
    /\ (DashboardShown(analysis_results)
          /\ WellFormed(analysis_results.val)
          /\ HeaderError(analysis_results.val) = "") =>
          LET R == analysis_results.val
          IN \A order \in SortOrders(R) : \A row \in 1..Len(R) :
                LET v == View(R, uploaded_data, order, row)
                IN /\ v.exc = ""
                   /\ v.at = order[row]
                   /\ JStr(uploaded_data[v.file].name) = R[order[row]]["filename"]

====
